---- MODULE Spec2Model ----
(***************************************************************************)
(* A model of the Crowdin client of Poedit (src/src/crowdin_client.cpp):   *)
(* the OAuth callback handling, the bearer token life cycle, the requests  *)
(* the client issues through its HTTP transports, the chain of requests    *)
(* that resolves the paths of a project's files, and the chains that       *)
(* download and upload a file.                                             *)
(*                                                                         *)
(* Texts (URIs, tokens) are sequences of one-character strings, so that    *)
(* the pattern searches and the base64 decoding of the code are computed   *)
(* character by character.                                                 *)
(***************************************************************************)
EXTENDS Integers, Sequences, FiniteSets, TLC

VARIABLES keychain, m_api, m_authCallback, promises, nextPromise, running,
          inflight, last

vars == <<keychain, m_api, m_authCallback, promises, nextPromise, running,
          inflight, last>>

\* ------------------------------------------------------------------ bounds

\* Authenticate() calls in one run of the process.
MaxAuth == 2
\* Parameters ("k=v" segments joined by "&") of a callback URI.
MaxSegs == 2
\* Requests in flight at once.
MaxInflight == 1

\* --------------------------------------------------------------- constants

\* A pointer is a sequence: empty when null, else holding the object.
NULL == <<>>
\* The credential store holds no entry for ("Crowdin", ""); an entry is
\* <<token>>.
NoPassword == <<>>
\* The empty slot m_authCallback; a promise in the slot is its number.
NoCallback == 0

OAUTH_STATE ==
    <<"9","4","8","c","f","1","3","f","f","f","f","b","4","7","1","1","9",
    "d","6","c","f","a","2","b","6","8","8","9","8","f","6","7">>

OAUTH_URI_PREFIX ==
    <<"p","o","e","d","i","t",":","/","/","a","u","t","h","/","c","r","o",
    "w","d","i","n","/">>

\* The literal parts of the two patterns of HandleOAuthCallback.
StateLit == <<"s","t","a","t","e","=">>
TokenLit == <<"a","c","c","e","s","s","_","t","o","k","e","n","=">>

\* The alphabet of base64_decode_json_part: the position of a character,
\* less one, is its 6-bit value.
B64 ==
    <<"A","B","C","D","E","F","G","H","I","J","K","L","M","N","O","P","Q",
    "R","S","T","U","V","W","X","Y","Z","a","b","c","d","e","f","g","h","i",
    "j","k","l","m","n","o","p","q","r","s","t","u","v","w","x","y","z","0",
    "1","2","3","4","5","6","7","8","9","+","/">>

\* ------------------------------------------------------------------- texts

\* A text as a TLA+ string.
RECURSIVE Str(_)
Str(s) == IF s = <<>> THEN "" ELSE Head(s) \o Str(Tail(s))

\* The character of a byte: the letters, the digits, "-" and "." (what a host
\* name is made of); "?" stands for every other byte.
Chr(b) ==
    IF b >= 65 /\ b <= 90 THEN B64[b - 64]
    ELSE IF b >= 97 /\ b <= 122 THEN B64[b - 70]
    ELSE IF b >= 48 /\ b <= 57 THEN B64[b + 5]
    ELSE IF b = 45 THEN "-"
    ELSE IF b = 46 THEN "."
    ELSE "?"

RECURSIVE ChrAll(_)
ChrAll(bs) == IF bs = <<>> THEN <<>> ELSE <<Chr(Head(bs))>> \o ChrAll(Tail(bs))

\* The position of the first c in s, 0 when there is none.
RECURSIVE FirstOf(_, _, _)
FirstOf(s, c, i) ==
    IF i > Len(s) THEN 0
    ELSE IF s[i] = c THEN i
    ELSE FirstOf(s, c, i + 1)

\* wxString::AfterFirst: the text after the first c, empty when s has no c.
AfterFirst(s, c) ==
    LET i == FirstOf(s, c, 1)
    IN  IF i = 0 THEN <<>> ELSE SubSeq(s, i + 1, Len(s))

\* wxString::BeforeFirst: the text before the first c, all of s when s has no c.
BeforeFirst(s, c) ==
    LET i == FirstOf(s, c, 1)
    IN  IF i = 0 THEN s ELSE SubSeq(s, 1, i - 1)

\* ---------------------------------------------------------- token payload

\* t[c] of base64_decode_json_part: the 6-bit value of c, -1 for a character
\* outside the alphabet.
B64Value(c) ==
    IF \E i \in 1..Len(B64) : B64[i] = c
    THEN (CHOOSE i \in 1..Len(B64) : B64[i] = c) - 1
    ELSE -1

\* 2^n, for the shifts of the decoder.
RECURSIVE Pow2(_)
Pow2(n) == IF n = 0 THEN 1 ELSE 2 * Pow2(n - 1)

\* The loop of base64_decode_json_part from character i on: it stops at the
\* first character outside the alphabet and keeps the bytes decoded so far.
\* val is kept modulo 2^12: the loop reads its bits valb..valb+7 only, with
\* valb <= 4, and never clears the bits above.
RECURSIVE B64Loop(_, _, _, _, _)
B64Loop(in, i, val, valb, out) ==
    IF i > Len(in) THEN out
    ELSE IF B64Value(in[i]) = -1 THEN out
    ELSE LET v  == ((val * 64) + B64Value(in[i])) % 4096
             vb == valb + 6
         IN  IF vb >= 0
             THEN B64Loop(in, i + 1, v, vb - 8,
                          Append(out, (v \div Pow2(vb)) % 256))
             ELSE B64Loop(in, i + 1, v, vb, out)

\* base64_decode_json_part: the bytes of a text.
base64_decode_json_part(in) == B64Loop(in, 1, 0, -8, <<>>)

\* The bytes of {"domain":" and of "}.
DomainOpen == <<123, 34, 100, 111, 109, 97, 105, 110, 34, 58, 34>>
DomainClose == <<34, 125>>

\* json::parse(text).at("domain").get<std::string>() on the documents the
\* model decodes: an object whose only member is a string "domain" (without
\* escapes) gives that string; every other text, be it no JSON, an object
\* without "domain" or one whose "domain" is no string, throws.
JsonDomain(text) ==
    LET n == Len(text)
        lo == Len(DomainOpen)
        lc == Len(DomainClose)
        isDomainDoc ==
            /\ n >= lo + lc
            /\ SubSeq(text, 1, lo) = DomainOpen
            /\ SubSeq(text, n - lc + 1, n) = DomainClose
            /\ \A k \in (lo + 1)..(n - lc) : text[k] \notin {34, 92} /\ text[k] >= 32
    IN  IF isDomainDoc
        THEN [thrown |-> FALSE, value |-> ChrAll(SubSeq(text, lo + 1, n - lc))]
        ELSE [thrown |-> TRUE, value |-> <<>>]

\* The local variable domain of SetToken after its try block: the payload's
\* domain with "." appended, or empty when anything in the block threw.
TokenDomain(token) ==
    LET payload == BeforeFirst(AfterFirst(token, "."), ".")
        parsed  == JsonDomain(base64_decode_json_part(payload))
    IN  IF parsed.thrown THEN <<>> ELSE Append(parsed.value, ".")

\* The crowdin_http_client SetToken makes: its URL prefix and the
\* authorization it is given.
ApiClient(token) ==
    [url_prefix    |-> "https://" \o Str(TokenDomain(token)) \o "crowdin.com/api/v2",
     authorization |-> "Bearer " \o Str(token)]

\* SetToken without the early return on an empty token.
SetToken_NoEmptyCheck(api, token) == <<ApiClient(token)>>

\* SetToken: m_api afterwards, given m_api before.
SetToken(api, token) ==
    IF token = <<>> THEN api ELSE <<ApiClient(token)>>

\* ------------------------------------------------------ pattern searching

NoMatch == [matched |-> FALSE, str1 |-> <<>>]

\* The places of s where lit is followed by at least one character other
\* than "&": where the pattern lit "([^&]+)" matches.
MatchStarts(s, lit) ==
    {i \in 1..(Len(s) - Len(lit)) :
        /\ s[i] = lit[1]
        /\ SubSeq(s, i, i + Len(lit) - 1) = lit
        /\ s[i + Len(lit)] # "&"}

\* The end of the capture "[^&]+" that starts at j: the last position before
\* the next "&", or the end of the text.
CaptureEnd(s, j) ==
    CHOOSE e \in j..Len(s) :
        /\ \A k \in j..e : s[k] # "&"
        /\ e = Len(s) \/ s[e + 1] = "&"

\* regex_search(s, m, regex(lit "([^&]+)")) on a text: the leftmost match,
\* with m.str(1) the longest capture there.
SearchFrom(s, lit) ==
    LET starts == MatchStarts(s, lit)
    IN  IF starts = {} THEN NoMatch
        ELSE LET i == CHOOSE a \in starts : \A b \in starts : a <= b
             IN  [matched |-> TRUE,
                  str1    |-> SubSeq(s, i + Len(lit), CaptureEnd(s, i + Len(lit)))]

\* Tokens the service hands out: one whose payload is {"domain":"ab"}, and
\* one without a payload.
TokenAB ==
    <<"h", ".", "e","y","J","k","b","2","1","h","a","W","4","i","O","i","J",
      "h","Y","i","J","9", ".", "s">>
TokenPlain == <<"t", "0">>
Tokens == {TokenAB, TokenPlain}

\* The parameters a callback URI is made of.
Segments ==
    {StateLit \o OAUTH_STATE, StateLit \o OAUTH_STATE \o <<"0">>,
     <<"x">> \o StateLit \o <<"0">>}
    \cup {TokenLit \o t : t \in Tokens}

RECURSIVE Join(_)
Join(segs) ==
    IF segs = <<>> THEN <<>>
    ELSE IF Len(segs) = 1 THEN Head(segs)
    ELSE Head(segs) \o <<"&">> \o Join(Tail(segs))

SegLists == UNION {[1..n -> Segments] : n \in 0..MaxSegs}

\* The URIs the host hands to HandleOAuthCallback.
Uris == {OAUTH_URI_PREFIX \o <<"#">> \o Join(segs) : segs \in SegLists}

\* The callbacks of the runs with requests: one that signs in with each
\* token, and one without a state.
HttpUris ==
    {OAUTH_URI_PREFIX \o <<"#">> \o TokenLit \o t \o <<"&">> \o StateLit \o OAUTH_STATE :
        t \in Tokens}
    \cup {OAUTH_URI_PREFIX \o <<"#">> \o TokenLit \o TokenPlain}

\* The searches of every URI of the model, made once.
SearchTable ==
    [s \in Uris \cup HttpUris |-> [lit \in {StateLit, TokenLit} |-> SearchFrom(s, lit)]]

\* regex_search(s, m, regex(lit "([^&]+)")): whether it matches, and m.str(1).
regex_search(s, lit) == SearchTable[s][lit]

\* ------------------------------------------------------------- the client

\* keytar::GetPassword("Crowdin", "", &token) finds a credential.
IsSignedIn == keychain # NoPassword

\* SignInIfAuthorized that finds the credential and does not call SetToken.
SignInIfAuthorized_NoSetToken(kc) == NULL

\* SignInIfAuthorized, on a client just made (m_api is still null).
SignInIfAuthorized(kc) ==
    IF kc # NoPassword THEN SetToken(NULL, kc[1]) ELSE NULL

\* A promise nobody has made yet.
NoPromise == [alive |-> FALSE, values |-> 0]

\* What last holds after the constructor of a first run; after a later one
\* it holds the last operation of the run before.
FirstRun == [op |-> "CrowdinClient", after |-> [op |-> "none"]]

\* The constructor, as the start of a run of the process against the
\* credential store kc: no request is pending, nothing is in flight.
Constructed(kc) ==
    /\ m_api = SignInIfAuthorized(kc)
    /\ m_authCallback = NoCallback
    /\ promises = [i \in 1..MaxAuth |-> NoPromise]
    /\ nextPromise = 1
    /\ running = TRUE
    /\ inflight = {}
    /\ last = FirstRun

\* The process is started anew (after it ended or crashed) against the
\* credential store as the last run left it.
Construct ==
    /\ m_api' = SignInIfAuthorized(keychain)
    /\ m_authCallback' = NoCallback
    /\ promises' = [i \in 1..MaxAuth |-> NoPromise]
    /\ nextPromise' = 1
    /\ running' = TRUE
    /\ inflight' = {}
    /\ last' = [op |-> "CrowdinClient",
                after |-> IF last.op = "CrowdinClient"
                          THEN [op |-> "CrowdinClient"] ELSE last]
    /\ UNCHANGED keychain

\* Authenticate that leaves a promise already in the slot there.
Authenticate_KeepsPending ==
    /\ running
    /\ nextPromise <= MaxAuth
    /\ promises' =
         [i \in 1..MaxAuth |->
            IF i = nextPromise
            THEN [alive |-> m_authCallback = NoCallback, values |-> 0]
            ELSE promises[i]]
    /\ m_authCallback' =
         IF m_authCallback = NoCallback THEN nextPromise ELSE m_authCallback
    /\ nextPromise' = nextPromise + 1
    /\ last' = [op |-> "Authenticate", future |-> nextPromise]
    /\ UNCHANGED <<keychain, m_api, running, inflight>>

\* Authenticate: a new promise takes the slot m_authCallback; the promise
\* that was in the slot, if any, is destroyed without a value.
Authenticate ==
    /\ running
    /\ nextPromise <= MaxAuth
    /\ promises' =
         [i \in 1..MaxAuth |->
            IF i = nextPromise THEN [alive |-> TRUE, values |-> 0]
            ELSE IF i = m_authCallback THEN [promises[i] EXCEPT !.alive = FALSE]
            ELSE promises[i]]
    /\ m_authCallback' = nextPromise
    /\ nextPromise' = nextPromise + 1
    /\ last' = [op |-> "Authenticate", future |-> nextPromise]
    /\ UNCHANGED <<keychain, m_api, running, inflight>>

\* SaveAndSetToken without keytar::AddPassword.
SaveAndSetToken_NotSaved(token) ==
    /\ m_api' = SetToken(m_api, token)
    /\ UNCHANGED keychain

\* SaveAndSetToken: SetToken, then keytar::AddPassword.
SaveAndSetToken(token) ==
    /\ m_api' = SetToken(m_api, token)
    /\ keychain' = <<token>>

\* HandleOAuthCallback's checks without the comparison with OAUTH_STATE.
CallbackAccepted_AnyState(uri) ==
    /\ regex_search(uri, StateLit).matched
    /\ regex_search(uri, TokenLit).matched
    /\ m_authCallback # NoCallback

\* HandleOAuthCallback's checks without the search for access_token.
CallbackAccepted_NoTokenCheck(uri) ==
    /\ regex_search(uri, StateLit).matched
    /\ regex_search(uri, StateLit).str1 = OAUTH_STATE
    /\ m_authCallback # NoCallback

\* Whether HandleOAuthCallback(uri) gets past its three early returns.
CallbackAccepted(uri) ==
    LET st == regex_search(uri, StateLit)
        tk == regex_search(uri, TokenLit)
    IN  /\ st.matched /\ st.str1 = OAUTH_STATE
        /\ tk.matched
        /\ m_authCallback # NoCallback

\* HandleOAuthCallback(uri).
HandleOAuthCallback(uri) ==
    /\ running
    /\ last' = [op |-> "HandleOAuthCallback", uri |-> uri,
                pending |-> m_authCallback]
    /\ IF CallbackAccepted(uri)
       THEN /\ SaveAndSetToken(regex_search(uri, TokenLit).str1)
            /\ promises' = [promises EXCEPT ![m_authCallback] =
                              [alive |-> FALSE, values |-> @.values + 1]]
            /\ m_authCallback' = NoCallback
       ELSE UNCHANGED <<keychain, m_api, promises, m_authCallback>>
    /\ UNCHANGED <<nextPromise, running, inflight>>

\* The body of SignOut that deletes the credential and leaves the
\* authorization of m_api as it is.
SignOutBody_KeepsAuthorization ==
    /\ keychain' = NoPassword
    /\ UNCHANGED <<running, m_api>>

\* The body of SignOut.  With m_api null, m_api->set_authorization("") is a
\* call through a null pointer: the process dies there, or the call passes
\* and the credential is deleted.
SignOutBody ==
    IF m_api = NULL
    THEN \/ /\ running' = FALSE
            /\ UNCHANGED <<keychain, m_api>>
         \/ /\ keychain' = NoPassword
            /\ UNCHANGED <<running, m_api>>
    ELSE /\ m_api' = <<[m_api[1] EXCEPT !.authorization = ""]>>
         /\ keychain' = NoPassword
         /\ UNCHANGED running

\* SignOut(), called by the application.
SignOut ==
    /\ running
    /\ SignOutBody
    /\ last' = [op |-> "SignOut", bound |-> m_api # NULL]
    /\ UNCHANGED <<m_authCallback, promises, nextPromise, inflight>>

\* --------------------------------------------------------------- requests

Unauthorized == 401

\* _("Not authorized, please sign in again.")
NotAuthorizedMessage == "Not authorized, please sign in again."

\* on_error_response that replaces the message of a 401 and does not call
\* SignOut.
on_error_response_NoSignOut(statusCode, message) ==
    IF statusCode = Unauthorized
    THEN [message |-> NotAuthorizedMessage, signOut |-> FALSE]
    ELSE [message |-> message, signOut |-> FALSE]

\* crowdin_http_client::on_error_response(statusCode, message): the message
\* it leaves in its argument, and whether it calls m_owner.SignOut().
on_error_response(statusCode, message) ==
    IF statusCode = Unauthorized
    THEN [message |-> NotAuthorizedMessage, signOut |-> TRUE]
    ELSE [message |-> message, signOut |-> FALSE]

\* The smallest request number not in flight.
FreeId == CHOOSE i \in 1..MaxInflight :
            /\ \A r \in inflight : r.id # i
            /\ \A j \in 1..(i - 1) : \E r \in inflight : r.id = j

\* A method of the client sends its first request through m_api:
\* GetUserInfo (a single request) or DownloadFile (the export build, whose
\* answer names the URL to fetch).
ApiRequest(op) ==
    /\ running
    /\ m_api # NULL
    /\ Cardinality(inflight) < MaxInflight
    /\ inflight' = inflight \cup
         {[id |-> FreeId, via |-> "api", op |-> op,
           authorization |-> m_api[1].authorization]}
    /\ last' = [op |-> op]
    /\ UNCHANGED <<keychain, m_api, m_authCallback, promises, nextPromise,
                   running>>

\* A request is answered with success.  The answer to DownloadFile's build
\* request makes the per-download client and starts the fetch through it;
\* under is the history of the fetch: the authorization its build request
\* was sent with.
ResponseOk(r) ==
    /\ running
    /\ r \in inflight
    /\ inflight' =
         IF r.op = "DownloadFile" /\ r.via = "api"
         THEN (inflight \ {r}) \cup
                {[id |-> r.id, via |-> "download", op |-> r.op,
                  authorization |-> "", under |-> r.authorization]}
         ELSE inflight \ {r}
    /\ last' = [op |-> "Response", via |-> r.via, statusCode |-> 200,
                message |-> "", delivered |-> TRUE]
    /\ UNCHANGED <<keychain, m_api, m_authCallback, promises, nextPromise,
                   running>>

\* A request is answered with an error: the transport hands the status and
\* the server's message to on_error_response, and then fails the caller's
\* future with the message as on_error_response left it.
ResponseError(r, statusCode, message) ==
    /\ running
    /\ r \in inflight
    /\ LET e == on_error_response(statusCode, message)
       IN  /\ IF e.signOut
              THEN SignOutBody
              ELSE UNCHANGED <<keychain, m_api, running>>
           /\ last' = [op |-> "Response", via |-> r.via,
                       statusCode |-> statusCode, message |-> e.message,
                       delivered |-> running', request |-> r]
    /\ inflight' = inflight \ {r}
    /\ UNCHANGED <<m_authCallback, promises, nextPromise>>

\* ----------------------------------------------------------------- inputs

ErrorStatus == {Unauthorized, 403, 500}
ServerMessages == {"The access token provided is invalid", "Server Error"}

\* ---------------------------------------------------------- specification

Init ==
    /\ keychain \in {NoPassword} \cup {<<t>> : t \in Tokens}
    /\ Constructed(keychain)

\* The sign-in life cycle: the application starts, authenticates, receives
\* callback URIs and signs out.
Next ==
    \/ Construct
    \/ Authenticate
    \/ \E uri \in Uris : HandleOAuthCallback(uri)
    \/ SignOut

Spec == Init /\ [][Next]_vars

\* The same with requests in flight and their answers.
NextHttp ==
    \/ Construct
    \/ Authenticate
    \/ \E uri \in HttpUris : HandleOAuthCallback(uri)
    \/ SignOut
    \/ \E op \in {"GetUserInfo", "DownloadFile"} : ApiRequest(op)
    \/ \E r \in inflight : ResponseOk(r)
    \/ \E r \in inflight, s \in ErrorStatus, m \in ServerMessages :
          ResponseError(r, s, m)

SpecHttp == Init /\ [][NextHttp]_vars

\* ------------------------------------------------------- SetToken alone

\* Payload segments of tokens, each with the domain its JSON document
\* names (empty when it names none, or when it is no base64 of a document).
PayloadCases ==
    {
     \* {"domain":"ab"}
     [text   |-> <<"e","y","J","k","b","2","1","h","a","W","4","i","O","i","J","h","Y","i","J","9">>,
      domain |-> <<"a","b">>],
     \* {"domain":"x-1"}
     [text   |-> <<"e","y","J","k","b","2","1","h","a","W","4","i","O","i","J","4","L","T","E","i","f","Q">>,
      domain |-> <<"x","-","1">>],
     \* {"domain":""}
     [text   |-> <<"e","y","J","k","b","2","1","h","a","W","4","i","O","i","I","i","f","Q">>,
      domain |-> <<>>],
     \* {}
     [text   |-> <<"e","3","0">>,
      domain |-> <<>>],
     \* {"domain":1}
     [text   |-> <<"e","y","J","k","b","2","1","h","a","W","4","i","O","j","F","9">>,
      domain |-> <<>>],
     \* a character outside the alphabet
     [text   |-> <<"e","y","J","k","b","2","1","-","h","a","W","4","i","O","i","J","h","Y","i","J","9">>,
      domain |-> <<>>],
     \* {"domain":"ab" cut short
     [text   |-> <<"e","y","J","k","b","2","1","h","a","W","4","i","O","i","J","h","Y","i","J">>,
      domain |-> <<>>],
     \* no payload
     [text   |-> <<>>,
      domain |-> <<>>]
    }

\* Tokens made of a header, a payload and a signature, or of fewer parts,
\* each with the domain of its payload.
TokenCases ==
    {[token  |-> h \o <<".">> \o p.text \o s, domain |-> p.domain] :
        h \in {<<>>, <<"h">>}, p \in PayloadCases,
        s \in {<<>>, <<".">>, <<".", "s">>}}
    \cup {[token |-> p.text, domain |-> <<>>] : p \in PayloadCases}
    \cup {[token |-> TokenPlain, domain |-> <<>>]}

\* SetToken(token), called on a client in any binding.
SetTokenCall(token) ==
    /\ m_api' = SetToken(m_api, token)
    /\ last' = [op |-> "SetToken", token |-> token]
    /\ UNCHANGED <<keychain, m_authCallback, promises, nextPromise, running,
                   inflight>>

InitToken ==
    /\ keychain \in {NoPassword} \cup {<<t>> : t \in Tokens}
    /\ Constructed(keychain)

NextToken == \E c \in TokenCases : SetTokenCall(c.token)

SpecToken == InitToken /\ [][NextToken]_vars

\* --------------------------------------------------------- GetUserProjects

\* Projects in an answer to "projects?limit=500".
MaxProjects == 2

\* The "data" object of a project: its publicDownloads member is absent,
\* null, true or false.
ProjectData ==
    [name : {"p"}, id : 1..2,
     publicDownloads : {"absent", "null", "true", "false"}]

\* The answers of the service.
ProjectAnswers == UNION {[1..n -> ProjectData] : n \in 0..MaxProjects}

\* The test of GetUserProjects without is_null().
ProjectListed_NullToo(i) == i.publicDownloads # "absent"

\* The test of GetUserProjects on a project: publicDownloads is a member and
\* is not null.
ProjectListed(i) ==
    /\ i.publicDownloads # "absent"
    /\ ~(i.publicDownloads = "null")

\* The loop of GetUserProjects' continuation over r["data"] from entry k on.
RECURSIVE ProjectsLoop(_, _, _)
ProjectsLoop(data, k, all) ==
    IF k > Len(data) THEN all
    ELSE IF ProjectListed(data[k])
         THEN ProjectsLoop(data, k + 1,
                           Append(all, [name |-> data[k].name, id |-> data[k].id]))
         ELSE ProjectsLoop(data, k + 1, all)

\* The answer to GetUserProjects' request arrives and its continuation
\* makes the list the future is resolved with.
GetUserProjectsThen(r, data) ==
    /\ running
    /\ r \in inflight
    /\ r.op = "GetUserProjects"
    /\ inflight' = inflight \ {r}
    /\ last' = [op |-> "GetUserProjects.then", data |-> data,
                all |-> ProjectsLoop(data, 1, <<>>)]
    /\ UNCHANGED <<keychain, m_api, m_authCallback, promises, nextPromise,
                   running>>

InitProjects ==
    /\ keychain \in {<<t>> : t \in Tokens}
    /\ Constructed(keychain)

NextProjects ==
    \/ ApiRequest("GetUserProjects")
    \/ \E r \in inflight, data \in ProjectAnswers : GetUserProjectsThen(r, data)

SpecProjects == InitProjects /\ [][NextProjects]_vars

\* ------------------------------------------------- the claims' vocabulary

\* The text w stands in s at position i.
Occurs(s, w, i) ==
    /\ i + Len(w) - 1 <= Len(s)
    /\ \A k \in 1..Len(w) : s[i + k - 1] = w[k]

\* The parameter lit has a value at position i of s.
ValueAt(s, lit, i) ==
    /\ Occurs(s, lit, i)
    /\ i + Len(lit) <= Len(s)
    /\ s[i + Len(lit)] # "&"

\* s carries the parameter lit with some value.
HasParam(s, lit) == \E i \in 1..Len(s) : ValueAt(s, lit, i)

\* The first value of the parameter lit in s is v: v follows lit, ends at a
\* "&" or at the end of s, and no value of lit stands before it.
ParamIs(s, lit, v) ==
    /\ v # <<>>
    /\ \A k \in 1..Len(v) : v[k] # "&"
    /\ \E i \in 1..Len(s) :
          /\ Occurs(s, lit \o v, i)
          /\ \/ i + Len(lit) + Len(v) > Len(s)
             \/ s[i + Len(lit) + Len(v)] = "&"
          /\ \A j \in 1..(i - 1) : ~ValueAt(s, lit, j)

\* What the claims say of each URI of the model, found once.
UriFacts ==
    [u \in Uris \cup HttpUris |->
        [rightState |-> ParamIs(u, StateLit, OAUTH_STATE),
         hasToken   |-> HasParam(u, TokenLit),
         tokens     |-> {v \in Tokens : ParamIs(u, TokenLit, v)}]]

\* The step is a call of HandleOAuthCallback.
IsCallback == last'.op = "HandleOAuthCallback"

\* What a callback may change.
authState == <<keychain, m_api, promises, m_authCallback>>

\* C1: with a request pending, a callback whose state is the issued one and
\* that carries an access token saves that token, resolves the pending
\* future and empties the slot; a callback with no request pending, such as
\* the same URI delivered again, changes nothing.
C1_CallbackResolvesOnce ==
    [][IsCallback =>
         LET f == UriFacts[last'.uri]
         IN  /\ (m_authCallback # NoCallback /\ f.rightState /\ f.hasToken) =>
                  /\ \E v \in f.tokens : keychain' = <<v>>
                  /\ promises'[m_authCallback].values = 1
                  /\ promises[m_authCallback].values = 0
                  /\ m_authCallback' = NoCallback
             /\ m_authCallback = NoCallback => UNCHANGED authState]_vars

\* C1's case: a valid URI was delivered with no request pending, after a
\* request was resolved and its token stored.
C1_Witness ==
    /\ last.op = "HandleOAuthCallback"
    /\ last.pending = NoCallback
    /\ UriFacts[last.uri].rightState
    /\ last.uri \in Uris
    /\ \E v \in UriFacts[last.uri].tokens : keychain = <<v>>
    /\ \E i \in 1..MaxAuth : promises[i].values = 1

\* C2: a callback whose state is absent or is not the issued one resolves
\* nothing and saves nothing.
C2_WrongStateIgnored ==
    [][(IsCallback /\ ~UriFacts[last'.uri].rightState) =>
         UNCHANGED authState]_vars

\* C2's case: a URI with a token and a wrong state was delivered while a
\* request was pending.
C2_Witness ==
    /\ last.op = "HandleOAuthCallback"
    /\ last.pending # NoCallback
    /\ HasParam(last.uri, StateLit)
    /\ ~UriFacts[last.uri].rightState
    /\ UriFacts[last.uri].hasToken
    /\ m_authCallback = last.pending

\* A callback the claims call dropped: its state is wrong or it has no token.
Dropped(uri) == ~UriFacts[uri].rightState \/ ~UriFacts[uri].hasToken

\* C3: a callback with the right state and no access token has no effect,
\* the request stays pending; and the valid callback that follows dropped
\* ones resolves the request that was pending before them.
C3_MissingTokenDropped ==
    [][IsCallback =>
         /\ Dropped(last'.uri) => UNCHANGED <<authState, running>>
         /\ ( /\ last.op = "HandleOAuthCallback"
              /\ last.pending # NoCallback
              /\ Dropped(last.uri)
              /\ ~Dropped(last'.uri) ) =>
                 /\ promises'[last.pending].values = 1
                 /\ m_authCallback' = NoCallback]_vars

\* C3's case: a URI with the right state and no token was delivered while a
\* request was pending, and the request is still pending.
C3_Witness ==
    /\ last.op = "HandleOAuthCallback"
    /\ last.pending # NoCallback
    /\ UriFacts[last.uri].rightState
    /\ ~UriFacts[last.uri].hasToken
    /\ m_authCallback = last.pending
    /\ promises[last.pending] = [alive |-> TRUE, values |-> 0]

\* C4: one promise at most is pending, it is the one of the latest
\* Authenticate(), a step resolves no other promise, and no promise is
\* resolved twice.
C4_SinglePendingSlot ==
    [][/\ \A i \in 1..MaxAuth :
            promises'[i].values > promises[i].values =>
               /\ i = m_authCallback
               /\ i = nextPromise - 1
               /\ promises[i].values = 0
               /\ promises'[i].values = 1
       /\ \A i \in 1..MaxAuth :
            promises'[i].alive => i = m_authCallback' /\ i = nextPromise' - 1]_vars

\* C4's case: Authenticate() was called twice, and a callback resolved the
\* second future and not the first.
C4_Witness ==
    /\ last.op = "HandleOAuthCallback"
    /\ nextPromise = 3
    /\ promises[1] = [alive |-> FALSE, values |-> 0]
    /\ promises[2] = [alive |-> FALSE, values |-> 1]

\* C6 (as claimed): SignOut(), called in any state, completes and leaves no
\* authorization on the API transport and no credential in the store.
C6_SignOutCompletes ==
    last.op = "SignOut" =>
        /\ running
        /\ ~IsSignedIn
        /\ m_api = NULL \/ m_api[1].authorization = ""

\* The callback of the step before saved a token: a request was pending and
\* the URI had the issued state and a token.
SavedToken(l) ==
    /\ l.op = "HandleOAuthCallback"
    /\ l.pending # NoCallback
    /\ ~Dropped(l.uri)

\* C7: a client constructed right after SaveAndSetToken(t) is signed in, and
\* its API transport has the base URL and the bearer token that
\* SaveAndSetToken(t) bound.
C7_RoundTrip ==
    [][(SavedToken(last) /\ last'.op = "CrowdinClient") =>
          /\ IsSignedIn'
          /\ m_api # NULL
          /\ m_api' = m_api
          /\ \E v \in UriFacts[last.uri].tokens :
                m_api'[1].authorization = "Bearer " \o Str(v)]_vars

\* C7's case: the process was started anew right after a callback saved the
\* token with a domain, and the new client is bound to that domain.
C7_Witness ==
    /\ last.op = "CrowdinClient"
    /\ SavedToken(last.after)
    /\ TokenAB \in UriFacts[last.after.uri].tokens
    /\ IsSignedIn
    /\ m_api # NULL
    /\ m_api[1].url_prefix = "https://ab.crowdin.com/api/v2"

\* C5: a 401 answer to a request sent through the API transport or through
\* a per-download transport signs out before the caller gets the message:
\* the credential is gone, IsSignedIn() is false, the transport has no
\* authorization and the caller receives the "not authorized" message; an
\* error answer with any other status signs nobody out and passes the
\* server's message on.
C5_UnauthorizedSignsOut ==
    [][last'.op = "Response" =>
         /\ last'.statusCode = Unauthorized =>
               /\ last'.delivered
               /\ last'.message = NotAuthorizedMessage
               /\ ~IsSignedIn'
               /\ m_api' # NULL /\ m_api'[1].authorization = ""
         /\ last'.statusCode # Unauthorized =>
               /\ UNCHANGED <<keychain, m_api, running>>
               /\ last'.message # NotAuthorizedMessage]_vars

\* C5's case: a fetch through a per-download transport was answered 401 and
\* the client is signed out.
C5_Witness ==
    /\ last.op = "Response"
    /\ last.via = "download"
    /\ last.statusCode = Unauthorized
    /\ last.message = NotAuthorizedMessage
    /\ ~IsSignedIn

\* The base URL of the API for a domain, as the claims give it.
ApiBase(domain) ==
    IF domain # <<>>
    THEN "https://" \o Str(domain) \o ".crowdin.com/api/v2"
    ELSE "https://crowdin.com/api/v2"

\* C8 (as claimed): SetToken with a non-empty token binds the API transport
\* to https://<domain>.crowdin.com/api/v2 when the payload names a non-empty
\* domain and to https://crowdin.com/api/v2 when its domain is empty or it
\* yields none, with the authorization "Bearer " + token.
C8_ApiBaseFromDomain ==
    \A c \in TokenCases :
        (last.op = "SetToken" /\ last.token = c.token /\ c.token # <<>>) =>
            m_api = <<[url_prefix    |-> ApiBase(c.domain),
                       authorization |-> "Bearer " \o Str(c.token)]>>

\* C9: SetToken with an empty token leaves the binding of the API transport
\* and the credential store as they were.
C9_EmptyTokenNoOp ==
    [][(last'.op = "SetToken" /\ last'.token = <<>>) =>
          UNCHANGED <<m_api, keychain>>]_vars

\* C9's case: SetToken("") was called on a client bound to a token, which is
\* still bound to it.
C9_Witness ==
    /\ last.op = "SetToken"
    /\ last.token = <<>>
    /\ m_api = <<ApiClient(TokenAB)>>

\* publicDownloads of a project is true or false.
PublicDownloadsSet(d) == d.publicDownloads \in {"true", "false"}

\* C10: GetUserProjects returns the projects whose publicDownloads is true
\* or false, in the order received, and no other.
C10_ProjectsFiltered ==
    last.op = "GetUserProjects.then" =>
        LET kept == SelectSeq(last.data, PublicDownloadsSet)
        IN  last.all = [k \in 1..Len(kept) |->
                          [name |-> kept[k].name, id |-> kept[k].id]]

\* C10's case: an answer with a project whose publicDownloads is null before
\* one whose publicDownloads is false, of which only the second is returned.
C10_Witness ==
    /\ last.op = "GetUserProjects.then"
    /\ Len(last.data) = 2
    /\ last.data[1].publicDownloads = "null"
    /\ last.data[2].publicDownloads = "false"
    /\ last.all = <<[name |-> last.data[2].name, id |-> last.data[2].id]>>

\* ---------------------------------------------------------- GetProjectInfo

\* Files in an answer to "projects/{id}/files?limit=500".
MaxFiles == 2

\* The identifier of GetProjectInfo for "no directory" and "no branch".
NO_ID == -1

\* A JSON member holding an identifier is null, or holds the number n as
\* <<n>>.
JsonNull == <<>>

\* The ProjectInfo made by GetProjectInfo before the first answer.
NewProjectInfo == [name |-> "", id |-> 0, languages |-> <<>>, files |-> <<>>]

\* The first continuation: name, id and languages of the project.
HandleProjectInfo(prj, d) ==
    [prj EXCEPT !.name = d.name, !.id = d.id,
                !.languages = d.targetLanguageIds]

\* The identifier of a directoryId or branchId member.
IdOrNone(member) == IF member = JsonNull THEN NO_ID ELSE member[1]

\* The loop of the second continuation without the test of the type.
RECURSIVE FilesLoop_KeepsAssets(_, _, _)
FilesLoop_KeepsAssets(data, k, files) ==
    IF k > Len(data) THEN files
    ELSE FilesLoop_KeepsAssets(data, k + 1,
           Append(files,
                  [pathName |-> "/" \o data[k].name,
                   id       |-> data[k].id,
                   dirId    |-> IdOrNone(data[k].directoryId),
                   branchId |-> IdOrNone(data[k].branchId)]))

\* The loop of the second continuation over r["data"] from entry k on: the
\* entries whose type is not "assets" become files named "/" + name.
RECURSIVE FilesLoop(_, _, _)
FilesLoop(data, k, files) ==
    IF k > Len(data) THEN files
    ELSE IF data[k].type # "assets"
         THEN FilesLoop(data, k + 1,
                Append(files,
                       [pathName |-> "/" \o data[k].name,
                        id       |-> data[k].id,
                        dirId    |-> IdOrNone(data[k].directoryId),
                        branchId |-> IdOrNone(data[k].branchId)]))
         ELSE FilesLoop(data, k + 1, files)

\* The map dirs after the first loop of the third continuation from entry k
\* on; insert() leaves an identifier that is already a key as it is.
RECURSIVE DirsInsert(_, _, _)
DirsInsert(data, k, dirs) ==
    IF k > Len(data) THEN dirs
    ELSE IF data[k].id \in DOMAIN dirs
         THEN DirsInsert(data, k + 1, dirs)
         ELSE DirsInsert(data, k + 1,
                [i \in DOMAIN dirs \cup {data[k].id} |->
                    IF i = data[k].id
                    THEN [name     |-> data[k].name,
                          parentId |-> IdOrNone(data[k].directoryId)]
                    ELSE dirs[i]])

\* dirs[dirId] of std::map: a key that is missing is inserted with a
\* value-initialized dir, whose name is empty and whose parentId is 0.
DirsAt(dirs, dirId) ==
    IF dirId \in DOMAIN dirs THEN dirs
    ELSE [i \in DOMAIN dirs \cup {dirId} |->
            IF i = dirId THEN [name |-> "", parentId |-> 0] ELSE dirs[i]]

\* The loop "while(dirId != NO_ID)" of one file: the names pushed on the
\* stack path (its top is the last element) and the map as the lookups
\* leave it.  The loop that comes to an identifier it has already looked up
\* repeats the same lookups without end: halts is FALSE.
RECURSIVE Walk(_, _, _, _)
Walk(dirs, dirId, path, seen) ==
    IF dirId = NO_ID THEN [halts |-> TRUE, path |-> path, dirs |-> dirs]
    ELSE IF dirId \in seen
         THEN [halts |-> FALSE, path |-> path, dirs |-> dirs]
         ELSE LET ds == DirsAt(dirs, dirId)
              IN  Walk(ds, ds[dirId].parentId, Append(path, ds[dirId].name),
                       seen \cup {dirId})

\* The second loop over a queue instead of a stack: the names come out in
\* the order they went in, the directory of the file first.
RECURSIVE PopAll_LeafFirst(_, _)
PopAll_LeafFirst(path, pathStr) ==
    IF path = <<>> THEN pathStr
    ELSE PopAll_LeafFirst(Tail(path), pathStr \o "/" \o Head(path))

\* The loop "while(path.size())": pathStr gets "/" and the top of the
\* stack, which is popped.
RECURSIVE PopAll(_, _)
PopAll(path, pathStr) ==
    IF path = <<>> THEN pathStr
    ELSE PopAll(SubSeq(path, 1, Len(path) - 1),
                pathStr \o "/" \o path[Len(path)])

\* The loop of the third continuation with pathStr declared before it: the
\* text made for a file is still there for the next.
RECURSIVE DirectoriesLoopFrom(_, _, _, _)
DirectoriesLoopFrom(files, k, dirs, kept) ==
    IF k > Len(files) THEN [halts |-> TRUE, files |-> files]
    ELSE LET w       == Walk(dirs, files[k].dirId, <<>>, {})
             pathStr == PopAll(w.path, kept)
         IN  IF ~w.halts THEN [halts |-> FALSE, files |-> files]
             ELSE DirectoriesLoopFrom(
                    IF pathStr # ""
                    THEN [files EXCEPT
                            ![k].pathName = pathStr \o files[k].pathName]
                    ELSE files,
                    k + 1, w.dirs, pathStr)

DirectoriesLoop_SharedPathStr(files, k, dirs) ==
    DirectoriesLoopFrom(files, k, dirs, "")

\* The loop of the third continuation over prj->files from file k on.
RECURSIVE DirectoriesLoop(_, _, _)
DirectoriesLoop(files, k, dirs) ==
    IF k > Len(files) THEN [halts |-> TRUE, files |-> files]
    ELSE LET w       == Walk(dirs, files[k].dirId, <<>>, {})
             pathStr == PopAll(w.path, "")
         IN  IF ~w.halts THEN [halts |-> FALSE, files |-> files]
             ELSE DirectoriesLoop(
                    IF pathStr # ""
                    THEN [files EXCEPT
                            ![k].pathName = pathStr \o files[k].pathName]
                    ELSE files,
                    k + 1, w.dirs)

\* The third continuation on the answer data.
HandleDirectories(prj, data) ==
    LET r == DirectoriesLoop(prj.files, 1, DirsInsert(data, 1, <<>>))
    IN  [halts |-> r.halts, prj |-> [prj EXCEPT !.files = r.files]]

\* The map branches after the first loop of the fourth continuation from
\* entry k on; an assignment replaces the name of a key that is there.
RECURSIVE BranchesAssign(_, _, _)
BranchesAssign(data, k, branches) ==
    IF k > Len(data) THEN branches
    ELSE BranchesAssign(data, k + 1,
           [i \in DOMAIN branches \cup {data[k].id} |->
               IF i = data[k].id THEN data[k].name ELSE branches[i]])

\* branches[branchId] of std::map: the name of a key that is missing is
\* the empty string.
BranchesAt(branches, branchId) ==
    IF branchId \in DOMAIN branches THEN branches[branchId] ELSE ""

\* The fourth continuation without the test of branchId against NO_ID.
HandleBranches_NoIdTest(prj, data) ==
    LET branches == BranchesAssign(data, 1, <<>>)
    IN  [prj EXCEPT !.files =
           [k \in 1..Len(prj.files) |->
              [prj.files[k] EXCEPT !.pathName =
                 "/" \o BranchesAt(branches, prj.files[k].branchId)
                     \o prj.files[k].pathName]]]

\* The fourth continuation on the answer data: the files of a branch get
\* "/" and the name of the branch before their path.
HandleBranches(prj, data) ==
    LET branches == BranchesAssign(data, 1, <<>>)
    IN  [prj EXCEPT !.files =
           [k \in 1..Len(prj.files) |->
              IF prj.files[k].branchId # NO_ID
              THEN [prj.files[k] EXCEPT !.pathName =
                      "/" \o BranchesAt(branches, prj.files[k].branchId)
                          \o prj.files[k].pathName]
              ELSE prj.files[k]]]

\* The request m_api->get(url + suffix) of a GetProjectInfo chain, with the
\* ProjectInfo its continuations share.  heard is the history of the chain:
\* the answers its continuations have handled, in the order they came.
ProjectRequest(id, project_id, get, prj, heard) ==
    [id |-> id, via |-> "api", op |-> "GetProjectInfo", get |-> get,
     project_id |-> project_id, prj |-> prj, heard |-> heard,
     authorization |-> m_api[1].authorization]

\* GetProjectInfo(project_id) sends the request for the project.  A chain
\* shares nothing with another but m_api, and one is followed at a time.
GetProjectInfo(project_id) ==
    /\ running
    /\ m_api # NULL
    /\ inflight = {}
    /\ inflight' = {ProjectRequest(FreeId, project_id, "project",
                                   NewProjectInfo, <<>>)}
    /\ last' = [op |-> "GetProjectInfo", project_id |-> project_id]
    /\ UNCHANGED <<keychain, m_api, m_authCallback, promises, nextPromise,
                   running>>

\* The answer for the project arrives: the first continuation fills the
\* ProjectInfo and sends the request for the files.
ThenProject(r, d) ==
    /\ running
    /\ r \in inflight
    /\ r.op = "GetProjectInfo" /\ r.get = "project"
    /\ LET prj == HandleProjectInfo(r.prj, d)
       IN  /\ inflight' = (inflight \ {r}) \cup
                {ProjectRequest(r.id, r.project_id, "files", prj,
                                Append(r.heard, d))}
           /\ last' = [op |-> "GetProjectInfo.then", get |-> r.get,
                       heard |-> Append(r.heard, d),
                       before |-> r.prj.files,
                       halts |-> TRUE, prj |-> prj, result |-> <<>>]
    /\ UNCHANGED <<keychain, m_api, m_authCallback, promises, nextPromise,
                   running>>

\* The second continuation asking for the branches, not the directories.
ThenFiles_AsksBranches(r, data) ==
    /\ running
    /\ r \in inflight
    /\ r.op = "GetProjectInfo" /\ r.get = "files"
    /\ LET prj == [r.prj EXCEPT !.files = FilesLoop(data, 1, r.prj.files)]
       IN  /\ inflight' = (inflight \ {r}) \cup
                {ProjectRequest(r.id, r.project_id, "branches", prj,
                                Append(r.heard, data))}
           /\ last' = [op |-> "GetProjectInfo.then", get |-> r.get,
                       heard |-> Append(r.heard, data),
                       before |-> r.prj.files,
                       halts |-> TRUE, prj |-> prj, result |-> <<>>]
    /\ UNCHANGED <<keychain, m_api, m_authCallback, promises, nextPromise,
                   running>>

\* The answer with the files arrives: the second continuation lists the
\* files and sends the request for the directories.
ThenFiles(r, data) ==
    /\ running
    /\ r \in inflight
    /\ r.op = "GetProjectInfo" /\ r.get = "files"
    /\ LET prj == [r.prj EXCEPT !.files = FilesLoop(data, 1, r.prj.files)]
       IN  /\ inflight' = (inflight \ {r}) \cup
                {ProjectRequest(r.id, r.project_id, "directories", prj,
                                Append(r.heard, data))}
           /\ last' = [op |-> "GetProjectInfo.then", get |-> r.get,
                       heard |-> Append(r.heard, data),
                       before |-> r.prj.files,
                       halts |-> TRUE, prj |-> prj, result |-> <<>>]
    /\ UNCHANGED <<keychain, m_api, m_authCallback, promises, nextPromise,
                   running>>

\* The third continuation returning the ProjectInfo as the directories
\* left it, without the request for the branches.
ThenDirectories_ReturnsPrj(r, data) ==
    /\ running
    /\ r \in inflight
    /\ r.op = "GetProjectInfo" /\ r.get = "directories"
    /\ LET h == HandleDirectories(r.prj, data)
       IN  /\ inflight' = inflight \ {r}
           /\ running' \in IF h.halts THEN {TRUE} ELSE {TRUE, FALSE}
           /\ last' = [op |-> "GetProjectInfo.then", get |-> r.get,
                       heard |-> Append(r.heard, data),
                       before |-> r.prj.files,
                       halts |-> h.halts, prj |-> h.prj,
                       result |-> IF h.halts THEN <<h.prj>> ELSE <<>>]
    /\ UNCHANGED <<keychain, m_api, m_authCallback, promises, nextPromise>>

\* The answer with the directories arrives: the third continuation puts the
\* directories before the paths and sends the request for the branches.
\* When the walk of a file does not halt the continuation never returns:
\* the chain sends nothing more, and the stack grows until the process is
\* stopped or the allocation fails.
ThenDirectories(r, data) ==
    /\ running
    /\ r \in inflight
    /\ r.op = "GetProjectInfo" /\ r.get = "directories"
    /\ LET h == HandleDirectories(r.prj, data)
       IN  /\ inflight' =
                IF h.halts
                THEN (inflight \ {r}) \cup
                       {ProjectRequest(r.id, r.project_id, "branches", h.prj,
                                       Append(r.heard, data))}
                ELSE inflight \ {r}
           /\ running' \in IF h.halts THEN {TRUE} ELSE {TRUE, FALSE}
           /\ last' = [op |-> "GetProjectInfo.then", get |-> r.get,
                       heard |-> Append(r.heard, data),
                       before |-> r.prj.files,
                       halts |-> h.halts, prj |-> h.prj, result |-> <<>>]
    /\ UNCHANGED <<keychain, m_api, m_authCallback, promises, nextPromise>>

\* The answer with the branches arrives: the fourth continuation puts the
\* branches before the paths and the future gets the ProjectInfo.
ThenBranches(r, data) ==
    /\ running
    /\ r \in inflight
    /\ r.op = "GetProjectInfo" /\ r.get = "branches"
    /\ LET prj == HandleBranches(r.prj, data)
       IN  /\ inflight' = inflight \ {r}
           /\ last' = [op |-> "GetProjectInfo.then", get |-> r.get,
                       heard |-> Append(r.heard, data),
                       before |-> r.prj.files,
                       halts |-> TRUE, prj |-> prj, result |-> <<prj>>]
    /\ UNCHANGED <<keychain, m_api, m_authCallback, promises, nextPromise,
                   running>>

\* ------------------------------------------------ inputs of GetProjectInfo

\* The "data" object of a project.
ProjectInfoData ==
    {[name |-> "p", id |-> 1, targetLanguageIds |-> <<"cs">>]}

\* The "data" object of a file: in no directory, in the directory 1 or 3,
\* or in the directory 9 that no answer lists; in no branch, in the branch
\* 1, or in the branch 7 that no answer lists.  Then a second file, in no
\* directory and no branch, and an entry that is no file.
FileData ==
    [name : {"f"}, id : {5}, type : {"file"},
     directoryId : {JsonNull, <<1>>, <<3>>, <<9>>},
     branchId : {JsonNull, <<1>>, <<7>>}]
    \cup {[name |-> "g", id |-> 6, type |-> "file",
           directoryId |-> JsonNull, branchId |-> JsonNull],
          [name |-> "a", id |-> 7, type |-> "assets",
           directoryId |-> <<1>>, branchId |-> JsonNull]}

FilesAnswers == UNION {[1..n -> FileData] : n \in 0..MaxFiles}

\* The directories of a project, as the service lists them.
DirectoriesAnswers ==
    {
     \* no directory
     <<>>,
     \* root(1) <- mid(2) <- leaf(3), listed leaf first
     <<[id |-> 3, name |-> "leaf", directoryId |-> <<2>>],
       [id |-> 1, name |-> "root", directoryId |-> JsonNull],
       [id |-> 2, name |-> "mid", directoryId |-> <<1>>]>>,
     \* leaf(3) in top(1), whose parent 8 is not listed
     <<[id |-> 1, name |-> "top", directoryId |-> <<8>>],
       [id |-> 3, name |-> "leaf", directoryId |-> <<1>>]>>,
     \* root(1) <- leaf(3), and a directory whose identifier is 0
     <<[id |-> 0, name |-> "zero", directoryId |-> JsonNull],
       [id |-> 1, name |-> "root", directoryId |-> JsonNull],
       [id |-> 3, name |-> "leaf", directoryId |-> <<1>>]>>,
     \* 1 and 3, each the parent of the other
     <<[id |-> 1, name |-> "x", directoryId |-> <<3>>],
       [id |-> 3, name |-> "y", directoryId |-> <<1>>]>>
    }

\* The branches of a project.
BranchesAnswers ==
    {
     <<>>,
     <<[id |-> 2, name |-> "other"], [id |-> 1, name |-> "br"]>>
    }

\* ------------------------------------------ GetProjectInfo: specification

InitTree ==
    /\ keychain = <<TokenAB>>
    /\ Constructed(keychain)

\* A chain of GetProjectInfo from its first request to its result, with
\* answers of success and of failure.
NextTree ==
    \/ \E project_id \in {1} : GetProjectInfo(project_id)
    \/ \E r \in inflight, d \in ProjectInfoData : ThenProject(r, d)
    \/ \E r \in inflight, data \in FilesAnswers : ThenFiles(r, data)
    \/ \E r \in inflight, data \in DirectoriesAnswers :
          ThenDirectories(r, data)
    \/ \E r \in inflight, data \in BranchesAnswers : ThenBranches(r, data)
    \/ \E r \in inflight, s \in ErrorStatus, m \in ServerMessages :
          ResponseError(r, s, m)

SpecTree == InitTree /\ [][NextTree]_vars

\* ------------------------------------- the claims' vocabulary: project tree

\* An entry of the files answer that is a file of the project.
IsFile(d) == d.type # "assets"

\* A chain of GetProjectInfo has handled its n-th answer.
Handled(get) == last.op = "GetProjectInfo.then" /\ last.get = get

\* The files, directories and branches the chain has been answered with.
HeardFiles == SelectSeq(last.heard[2], IsFile)
HeardDirectories == last.heard[3]
HeardBranches == last.heard[4]

\* The directory id is listed in the answer dirs, and its entry there.
Listed(dirs, id) == \E i \in 1..Len(dirs) : dirs[i].id = id
EntryOf(dirs, id) == dirs[CHOOSE i \in 1..Len(dirs) : dirs[i].id = id]

\* From the directory id, n or fewer parent links lead to a directory with
\* no parent, through listed directories only.
RECURSIVE CompleteChain(_, _, _)
CompleteChain(dirs, id, n) ==
    /\ Listed(dirs, id)
    /\ \/ EntryOf(dirs, id).directoryId = JsonNull
       \/ /\ n > 0
          /\ CompleteChain(dirs, EntryOf(dirs, id).directoryId[1], n - 1)

\* The names of a complete chain, each after "/", from the root to id.
RECURSIVE RootToLeaf(_, _)
RootToLeaf(dirs, id) ==
    (IF EntryOf(dirs, id).directoryId = JsonNull THEN ""
     ELSE RootToLeaf(dirs, EntryOf(dirs, id).directoryId[1]))
    \o "/" \o EntryOf(dirs, id).name

\* The file d is in a directory with a complete chain.
InCompleteChain(dirs, d) ==
    /\ d.directoryId # JsonNull
    /\ CompleteChain(dirs, d.directoryId[1], Len(dirs))

\* C11: in the ProjectInfo the future gets, a file with neither directory
\* nor branch has the path "/" + name, whatever the other files, the
\* directories and the branches of the project are.
C11_BareFilePath ==
    (Handled("branches") /\ last.result # <<>>) =>
        /\ Len(last.result[1].files) = Len(HeardFiles)
        /\ \A k \in 1..Len(HeardFiles) :
              (HeardFiles[k].directoryId = JsonNull
                   /\ HeardFiles[k].branchId = JsonNull)
              => last.result[1].files[k].pathName = "/" \o HeardFiles[k].name

\* C11's case: a project with directories and a branch, whose second file
\* is in none of them and comes after a file in the directory 3 and the
\* branch 1.
C11_Witness ==
    /\ Handled("branches") /\ last.result # <<>>
    /\ Len(HeardFiles) = 2
    /\ HeardFiles[1].directoryId = <<3>> /\ HeardFiles[1].branchId = <<1>>
    /\ HeardFiles[2].directoryId = JsonNull
    /\ HeardFiles[2].branchId = JsonNull
    /\ Len(HeardDirectories) = 3 /\ Len(HeardBranches) = 2
    /\ last.result[1].files[1].pathName = "/br/root/mid/leaf/f"
    /\ last.result[1].files[2].pathName = "/g"

\* C12: when the third continuation has handled the directories, a file
\* whose directory has a complete chain of ancestors has the path made of
\* their names from the root down, each after "/", and "/" + name.
C12_DirectoryPath ==
    (Handled("directories") /\ last.halts) =>
        /\ Len(last.prj.files) = Len(HeardFiles)
        /\ \A k \in 1..Len(HeardFiles) :
              InCompleteChain(HeardDirectories, HeardFiles[k])
              => last.prj.files[k].pathName =
                    RootToLeaf(HeardDirectories, HeardFiles[k].directoryId[1])
                        \o "/" \o HeardFiles[k].name

\* C12's case: root(1) <- mid(2) <- leaf(3), a file in 3 after a file in 1.
C12_Witness ==
    /\ Handled("directories") /\ last.halts
    /\ Len(HeardFiles) = 2
    /\ HeardFiles[1].directoryId = <<1>>
    /\ HeardFiles[2].directoryId = <<3>>
    /\ last.prj.files[1].pathName = "/root/f"
    /\ last.prj.files[2].pathName = "/root/mid/leaf/f"

\* The branch id is listed in the answer.
BranchListed(branches, id) == \E i \in 1..Len(branches) : branches[i].id = id
BranchName(branches, id) ==
    branches[CHOOSE i \in 1..Len(branches) : branches[i].id = id].name

\* C13: in the ProjectInfo the future gets, the path of a file of a listed
\* branch is "/" + the name of the branch + the path the directories stage
\* left, and the path of a file of no branch is the path that stage left.
C13_BranchOutermost ==
    (Handled("branches") /\ last.result # <<>>) =>
        /\ Len(last.result[1].files) = Len(HeardFiles)
        /\ Len(last.before) = Len(HeardFiles)
        /\ \A k \in 1..Len(HeardFiles) :
              /\ HeardFiles[k].branchId = JsonNull
                 => last.result[1].files[k].pathName = last.before[k].pathName
              /\ (HeardFiles[k].branchId # JsonNull
                    /\ BranchListed(HeardBranches, HeardFiles[k].branchId[1]))
                 => last.result[1].files[k].pathName =
                       "/" \o BranchName(HeardBranches,
                                         HeardFiles[k].branchId[1])
                           \o last.before[k].pathName

\* C13's case: a file of the branch 1 in the directory 3, and a file of no
\* branch in the directory 1.
C13_Witness ==
    /\ Handled("branches") /\ last.result # <<>>
    /\ Len(HeardFiles) = 2
    /\ HeardFiles[1].branchId = <<1>> /\ HeardFiles[1].directoryId = <<3>>
    /\ HeardFiles[2].branchId = JsonNull /\ HeardFiles[2].directoryId = <<1>>
    /\ last.before[1].pathName = "/root/mid/leaf/f"
    /\ last.result[1].files[1].pathName = "/br/root/mid/leaf/f"
    /\ last.result[1].files[2].pathName = "/root/f"

\* From the directory id, n or fewer parent links lead to an identifier the
\* answer dirs does not list.
RECURSIVE HitsAbsent(_, _, _)
HitsAbsent(dirs, id, n) ==
    \/ ~Listed(dirs, id)
    \/ /\ EntryOf(dirs, id).directoryId # JsonNull
       /\ n > 0
       /\ HitsAbsent(dirs, EntryOf(dirs, id).directoryId[1], n - 1)

\* The names of the listed ancestors of id, each after "/", from the one
\* whose parent is not listed down to id.
RECURSIVE FoundNames(_, _, _)
FoundNames(dirs, id, n) ==
    IF ~Listed(dirs, id) THEN ""
    ELSE (IF EntryOf(dirs, id).directoryId = JsonNull \/ n = 0 THEN ""
          ELSE FoundNames(dirs, EntryOf(dirs, id).directoryId[1], n - 1))
         \o "/" \o EntryOf(dirs, id).name

\* The walk from the directory of the file d comes to an identifier that
\* is not listed.
WalkHitsAbsent(dirs, d) ==
    /\ d.directoryId # JsonNull
    /\ HitsAbsent(dirs, d.directoryId[1], Len(dirs))

\* C14: when the directories are handled and the walk of a file comes to an
\* identifier that is not listed (every other walk ending at a root), the
\* continuation returns, the chain goes on and the path of that file has
\* the names of its listed ancestors only.
C14_AbsentIdHaltsWalk ==
    (/\ Handled("directories")
     /\ \E k \in 1..Len(HeardFiles) :
           WalkHitsAbsent(HeardDirectories, HeardFiles[k])
     /\ \A k \in 1..Len(HeardFiles) :
           \/ HeardFiles[k].directoryId = JsonNull
           \/ InCompleteChain(HeardDirectories, HeardFiles[k])
           \/ WalkHitsAbsent(HeardDirectories, HeardFiles[k]))
    => /\ last.halts
       /\ running
       /\ \E q \in inflight : q.op = "GetProjectInfo" /\ q.get = "branches"
       /\ \A k \in 1..Len(HeardFiles) :
             WalkHitsAbsent(HeardDirectories, HeardFiles[k])
             => last.prj.files[k].pathName =
                   FoundNames(HeardDirectories, HeardFiles[k].directoryId[1],
                              Len(HeardDirectories))
                       \o "/" \o HeardFiles[k].name

\* --------------------------------------------------- DownloadFile, UploadFile

\* Transfers (chains of DownloadFile or UploadFile) under way at once.
MaxTransfers == 2

\* The smallest chain number no request in flight has.
FreeTransfer == CHOOSE i \in 1..MaxTransfers :
                  /\ \A r \in inflight : r.id # i
                  /\ \A j \in 1..(i - 1) : \E r \in inflight : r.id = j

\* wxString::MakeLower on the letters A to Z; every other character stays.
Lower(c) ==
    IF \E i \in 1..26 : B64[i] = c
    THEN B64[(CHOOSE i \in 1..26 : B64[i] = c) + 26]
    ELSE c

MakeLower(s) == [i \in 1..Len(s) |-> Lower(s[i])]

\* exportAsXliff of DownloadFile with the extension compared as it is given.
ExportAsXliff_CaseSensitive(file_extension) ==
    ~(file_extension = <<"x","l","i","f","f">> \/ file_extension = <<"p","o">>)

\* exportAsXliff of DownloadFile: !(ext == "xliff" || ext == "po") on the
\* extension in lower case.
ExportAsXliff(file_extension) ==
    LET ext == MakeLower(file_extension)
    IN  ~(ext = <<"x","l","i","f","f">> \/ ext = <<"p","o">>)

\* DownloadFile posts the request for the export build of the file.
DownloadFile(project_id, lang, file_id, file_extension, output_file) ==
    /\ running
    /\ m_api # NULL
    /\ Cardinality(inflight) < MaxTransfers
    /\ inflight' = inflight \cup
         {[id |-> FreeTransfer, via |-> "api", op |-> "DownloadFile",
           post |-> "translations/builds/files",
           project_id |-> project_id, file_id |-> file_id,
           body |-> [targetLanguageId |-> lang,
                     exportAsXliff |-> ExportAsXliff(file_extension)],
           output_file |-> output_file,
           authorization |-> m_api[1].authorization]}
    /\ last' = [op |-> "DownloadFile", id |-> FreeTransfer,
                file_extension |-> file_extension]
    /\ UNCHANGED <<keychain, m_api, m_authCallback, promises, nextPromise,
                   running>>

\* wxURI::GetScheme and wxURI::GetServer of scheme://server[:port][/path].
GetScheme(url) == BeforeFirst(url, ":")
GetServer(url) ==
    LET hier      == AfterFirst(AfterFirst(AfterFirst(url, ":"), "/"), "/")
        authority == BeforeFirst(BeforeFirst(BeforeFirst(hier, "/"), "?"), "#")
    IN  BeforeFirst(authority, ":")

\* The download with a continuation that captures nothing: when the
\* continuation of the build returns, nothing holds the downloader.
Download_NotCaptured(r, url) ==
    [id |-> r.id, via |-> "download", op |-> "DownloadFile", url |-> url,
     output_file |-> r.output_file,
     transport |-> [url_prefix |-> Str(GetScheme(url)) \o "://"
                                     \o Str(GetServer(url)),
                    authorization |-> ""],
     holders |-> {}]

\* downloader->download(url, output_file).then([downloader]() {}): the
\* request through the client made for scheme://server of the URL, which
\* has no authorization set; holders are the owners of the shared pointer
\* once the continuation of the build has returned.
Download(r, url) ==
    [id |-> r.id, via |-> "download", op |-> "DownloadFile", url |-> url,
     output_file |-> r.output_file,
     transport |-> [url_prefix |-> Str(GetScheme(url)) \o "://"
                                     \o Str(GetServer(url)),
                    authorization |-> ""],
     holders |-> {"then"}]

\* The answer to the build request arrives with the URL of the file: the
\* continuation makes the downloader and starts the download.
ThenBuilt(r, url) ==
    /\ running
    /\ r \in inflight
    /\ r.op = "DownloadFile" /\ r.via = "api"
    /\ inflight' = (inflight \ {r}) \cup {Download(r, url)}
    /\ last' = [op |-> "DownloadFile.then", id |-> r.id, via |-> r.via,
                url |-> url, result |-> <<>>]
    /\ UNCHANGED <<keychain, m_api, m_authCallback, promises, nextPromise,
                   running>>

\* The download completes: the empty continuation runs, the downloader is
\* released with it and the future of DownloadFile is fulfilled.
ThenDownloaded(r) ==
    /\ running
    /\ r \in inflight
    /\ r.op = "DownloadFile" /\ r.via = "download"
    /\ inflight' = inflight \ {r}
    /\ last' = [op |-> "DownloadFile.then", id |-> r.id, via |-> r.via,
                url |-> r.url, result |-> <<"void">>]
    /\ UNCHANGED <<keychain, m_api, m_authCallback, promises, nextPromise,
                   running>>

\* UploadFile posts the content to the storages.
UploadFile(project_id, lang, file_id, file_extension, file_content) ==
    /\ running
    /\ m_api # NULL
    /\ Cardinality(inflight) < MaxTransfers
    /\ inflight' = inflight \cup
         {[id |-> FreeTransfer, via |-> "api", op |-> "UploadFile",
           post |-> "storages",
           header |-> "crowdin." \o Str(file_extension),
           content |-> file_content,
           project_id |-> project_id, file_id |-> file_id, lang |-> lang,
           authorization |-> m_api[1].authorization]}
    /\ last' = [op |-> "UploadFile", id |-> FreeTransfer,
                file_id |-> file_id]
    /\ UNCHANGED <<keychain, m_api, m_authCallback, promises, nextPromise,
                   running>>

\* The commit with fileId where storageId belongs.
Commit_FileIdAsStorage(r, storageId) ==
    [id |-> r.id, via |-> "api", op |-> "UploadFile",
     post |-> "translations",
     project_id |-> r.project_id, lang |-> r.lang,
     body |-> [storageId |-> r.file_id, fileId |-> r.file_id,
               importDuplicates |-> TRUE],
     authorization |-> m_api[1].authorization]

\* The request that commits the storage to the file of the project, with
\* the project_id, file_id and lang the continuation has captured.
Commit(r, storageId) ==
    [id |-> r.id, via |-> "api", op |-> "UploadFile",
     post |-> "translations",
     project_id |-> r.project_id, lang |-> r.lang,
     body |-> [storageId |-> storageId, fileId |-> r.file_id,
               importDuplicates |-> TRUE],
     authorization |-> m_api[1].authorization]

\* The storage answers with the id it gave the content: the continuation
\* posts the commit.
ThenStaged(r, storageId) ==
    /\ running
    /\ r \in inflight
    /\ r.op = "UploadFile" /\ r.post = "storages"
    /\ inflight' = (inflight \ {r}) \cup {Commit(r, storageId)}
    /\ last' = [op |-> "UploadFile.then", id |-> r.id, post |-> r.post,
                file_id |-> r.file_id, storageId |-> storageId,
                result |-> <<>>]
    /\ UNCHANGED <<keychain, m_api, m_authCallback, promises, nextPromise,
                   running>>

\* The commit is answered: the future of UploadFile is fulfilled.
ThenCommitted(r) ==
    /\ running
    /\ r \in inflight
    /\ r.op = "UploadFile" /\ r.post = "translations"
    /\ inflight' = inflight \ {r}
    /\ last' = [op |-> "UploadFile.then", id |-> r.id, post |-> r.post,
                file_id |-> r.body.fileId, storageId |-> r.body.storageId,
                result |-> <<"void">>]
    /\ UNCHANGED <<keychain, m_api, m_authCallback, promises, nextPromise,
                   running>>

\* ------------------------------------------------- inputs of the transfers

\* Extensions of files, with the one they are when the case of the letters
\* is set aside.
Extensions ==
    {<<"p","o">>, <<"P","O">>, <<"P","o">>, <<"x","l","i","f","f">>,
     <<"X","L","I","F","F">>, <<"X","l","i","f","f">>, <<"x","l","f">>,
     <<"p","o","t">>, <<"j","s","o","n">>, <<>>}

\* URLs the build answers with, each with its scheme and host.
DownloadUrls ==
    {[url    |-> <<"h","t","t","p","s",":","/","/","d",".","x","/","f">>,
      prefix |-> "https://d.x"],
     [url    |-> <<"h","t","t","p",":","/","/","e",".","y",":","8","/","g",
                   "?","a","=","1">>,
      prefix |-> "http://e.y"]}

FileIds == {5, 6}
StorageIds == {1, 2}

\* ------------------------------------------------ transfers: specification

InitTransfer ==
    /\ keychain = <<TokenAB>>
    /\ Constructed(keychain)

\* Downloads and uploads under way together, answered with success or
\* with failure.
NextTransfer ==
    \/ \E f \in FileIds, e \in Extensions :
          DownloadFile(1, "cs", f, e, "out")
    \/ \E r \in inflight, u \in DownloadUrls : ThenBuilt(r, u.url)
    \/ \E r \in inflight : ThenDownloaded(r)
    \/ \E f \in FileIds : UploadFile(1, "cs", f, <<"p","o">>, "content")
    \/ \E r \in inflight, s \in StorageIds : ThenStaged(r, s)
    \/ \E r \in inflight : ThenCommitted(r)
    \/ \E r \in inflight, s \in ErrorStatus, m \in ServerMessages :
          ResponseError(r, s, m)

SpecTransfer == InitTransfer /\ [][NextTransfer]_vars

\* ---------------------------------------- the claims' vocabulary: transfers

\* The capital and the small form of the letters of "xliff" and "po".
CasePairs ==
    {<<"X","x">>, <<"L","l">>, <<"I","i">>, <<"F","f">>, <<"P","p">>,
     <<"O","o">>}

\* The text s is the lower-case word w but for the case of its letters.
SameIgnoringCase(s, w) ==
    /\ Len(s) = Len(w)
    /\ \A i \in 1..Len(w) : s[i] = w[i] \/ <<s[i], w[i]>> \in CasePairs

\* The request a call of DownloadFile or UploadFile has just sent.
SentBy(l) == CHOOSE r \in inflight : r.id = l.id

\* C15: the build request of DownloadFile has exportAsXliff = false exactly
\* when the extension is "xliff" or "po" in any case of the letters.
C15_ExportAsXliff ==
    last.op = "DownloadFile" =>
        /\ \E r \in inflight : r.id = last.id
        /\ SentBy(last).op = "DownloadFile" /\ SentBy(last).via = "api"
        /\ (SentBy(last).body.exportAsXliff = FALSE)
              <=> (\/ SameIgnoringCase(last.file_extension,
                                       <<"x","l","i","f","f">>)
                   \/ SameIgnoringCase(last.file_extension, <<"p","o">>))

\* C15's cases: "XLIFF" sent with false, and "pot" sent with true.
C15_Witness ==
    /\ last.op = "DownloadFile"
    /\ last.file_extension = <<"X","L","I","F","F">>
    /\ SentBy(last).body.exportAsXliff = FALSE
    /\ \E r \in inflight :
          /\ r.op = "DownloadFile" /\ r.via = "api"
          /\ r.body.exportAsXliff = TRUE

\* --------------------------------------------------------------- GetUserInfo

\* A member of a JSON object: absent, null, or a string.
Absent == [kind |-> "absent", text |-> ""]
Null == [kind |-> "null", text |-> ""]
String(text) == [kind |-> "string", text |-> text]

\* d.at(key) converted to a string: at() throws when the member is absent
\* and the conversion throws when it is no string.
AtString(member) ==
    IF member.kind = "string"
    THEN [thrown |-> FALSE, text |-> member.text]
    ELSE [thrown |-> TRUE, text |-> ""]

\* The continuation of GetUserInfo on the "data" object d.
UserInfoOf(d) ==
    LET login     == d.username
        fullName  == AtString(d.fullName)
        firstName == IF AtString(d.firstName).thrown THEN ""
                     ELSE AtString(d.firstName).text
        lastName  == IF AtString(d.lastName).thrown THEN ""
                     ELSE AtString(d.lastName).text
        name      == IF ~fullName.thrown THEN fullName.text
                     ELSE firstName \o " " \o lastName
    IN  [login |-> login,
         name  |-> IF name = "" \/ name = " " THEN login ELSE name]

\* The answer to GetUserInfo's request arrives and its continuation makes
\* the UserInfo the future is resolved with.
GetUserInfoThen(r, d) ==
    /\ running
    /\ r \in inflight
    /\ r.op = "GetUserInfo"
    /\ inflight' = inflight \ {r}
    /\ last' = [op |-> "GetUserInfo.then", data |-> d, u |-> UserInfoOf(d)]
    /\ UNCHANGED <<keychain, m_api, m_authCallback, promises, nextPromise,
                   running>>

\* The "data" objects of users.
UserData ==
    [username  : {"login", ""},
     fullName  : {Absent, Null, String(""), String(" "), String("Full Name")},
     firstName : {Absent, Null, String(""), String("A")},
     lastName  : {Absent, Null, String(""), String("B")}]

InitUser ==
    /\ keychain \in {<<t>> : t \in Tokens}
    /\ Constructed(keychain)

NextUser ==
    \/ ApiRequest("GetUserInfo")
    \/ \E r \in inflight, d \in UserData : GetUserInfoThen(r, d)

SpecUser == InitUser /\ [][NextUser]_vars

\* --------------------------------------- the claims' vocabulary: user info

\* A name that is empty or a single space.
Blank(text) == text = "" \/ text = " "

\* The text of a member, empty when it is absent or no string.
TextOf(member) == IF member.kind = "string" THEN member.text ELSE ""

\* First and last name of d, joined.
FirstAndLast(d) == TextOf(d.firstName) \o " " \o TextOf(d.lastName)

\* C16: the name GetUserInfo returns is fullName when that is a name that
\* is not blank, else first and last name when they are not blank, else the
\* login; and it is not blank when the login is not empty.
C16_DisplayName ==
    last.op = "GetUserInfo.then" =>
        LET d == last.data
        IN  /\ last.u.login = d.username
            /\ last.u.name =
                 IF d.fullName.kind = "string" /\ ~Blank(d.fullName.text)
                 THEN d.fullName.text
                 ELSE IF ~Blank(FirstAndLast(d)) THEN FirstAndLast(d)
                 ELSE d.username
            /\ d.username # "" => ~Blank(last.u.name)

\* ------------------------------------------- the claims' vocabulary: chains

\* The requests of a GetProjectInfo chain, in the order of the stages.
StageOrder == <<"project", "files", "directories", "branches">>
StageOf(get) == CHOOSE n \in 1..4 : StageOrder[n] = get

\* The paths of q's ProjectInfo have the directories of the files before
\* them, where those make a complete chain, and no branch.
DirectoryQualified(q) ==
    LET files == SelectSeq(q.heard[2], IsFile)
    IN  /\ Len(q.prj.files) = Len(files)
        /\ \A k \in 1..Len(files) :
              /\ files[k].directoryId = JsonNull
                 => q.prj.files[k].pathName = "/" \o files[k].name
              /\ InCompleteChain(q.heard[3], files[k])
                 => q.prj.files[k].pathName =
                       RootToLeaf(q.heard[3], files[k].directoryId[1])
                           \o "/" \o files[k].name

\* C17: a request of a GetProjectInfo chain is sent either by the call, and
\* asks for the project, or in the step that handles the answer to the
\* request of the stage before it, of the same chain, with the ProjectInfo
\* that step has made; the request for the branches is sent with the
\* directories already before the paths of the files, and no branch.
C17_StagesInOrder ==
    [][\A q \in inflight' \ inflight :
          q.op = "GetProjectInfo" =>
             \/ /\ StageOf(q.get) = 1
                /\ q.heard = <<>>
                /\ last'.op = "GetProjectInfo"
             \/ /\ StageOf(q.get) > 1
                /\ \E r \in inflight \ inflight' :
                      /\ r.id = q.id /\ r.op = "GetProjectInfo"
                      /\ StageOf(r.get) = StageOf(q.get) - 1
                      /\ last'.op = "GetProjectInfo.then"
                      /\ last'.get = r.get
                /\ Len(q.heard) = StageOf(q.get) - 1
                /\ q.prj = last'.prj
                /\ q.get = "branches" => DirectoryQualified(q)
      ]_vars

\* C17's case: the request for the branches in flight after the three
\* answers before it, with the directories before the path of a file of the
\* branch 1 and the branch not yet.
C17_Witness ==
    /\ Handled("directories")
    /\ \E q \in inflight :
          /\ q.op = "GetProjectInfo" /\ q.get = "branches"
          /\ Len(q.heard) = 3
          /\ Len(q.prj.files) = 1
          /\ q.prj.files[1].branchId = 1
          /\ q.prj.files[1].pathName = "/root/mid/leaf/f"

\* ----------------------------------------------- the chains: specification

InitChains ==
    /\ keychain = <<TokenAB>>
    /\ Constructed(keychain)

\* The three chains, one under way at a time, from the call to the result
\* or to the first answer of failure.
NextChains ==
    \/ \E project_id \in {1} : GetProjectInfo(project_id)
    \/ \E r \in inflight, d \in ProjectInfoData : ThenProject(r, d)
    \/ \E r \in inflight, data \in FilesAnswers : ThenFiles(r, data)
    \/ \E r \in inflight, data \in DirectoriesAnswers :
          ThenDirectories(r, data)
    \/ \E r \in inflight, data \in BranchesAnswers : ThenBranches(r, data)
    \/ /\ inflight = {}
       /\ \E f \in FileIds, e \in Extensions :
             DownloadFile(1, "cs", f, e, "out")
    \/ \E r \in inflight, u \in DownloadUrls : ThenBuilt(r, u.url)
    \/ \E r \in inflight : ThenDownloaded(r)
    \/ /\ inflight = {}
       /\ \E f \in FileIds : UploadFile(1, "cs", f, <<"p","o">>, "content")
    \/ \E r \in inflight, s \in StorageIds : ThenStaged(r, s)
    \/ \E r \in inflight : ThenCommitted(r)
    \/ \E r \in inflight, s \in ErrorStatus, m \in ServerMessages :
          ResponseError(r, s, m)

SpecChains == InitChains /\ [][NextChains]_vars

\* The request r is the last of its chain.
LastStage(r) ==
    \/ r.op = "GetProjectInfo" /\ r.get = "branches" /\ Len(r.heard) = 3
    \/ r.op = "DownloadFile" /\ r.via = "download"
    \/ r.op = "UploadFile" /\ r.post = "translations"

\* The request q is the first of its chain.
FirstStage(q) ==
    \/ q.op = "GetProjectInfo" /\ q.get = "project"
    \/ q.op = "DownloadFile" /\ q.via = "api"
    \/ q.op = "UploadFile" /\ q.post = "storages"

\* The step has handled an answer of success.
Continued(l) ==
    l.op \in {"GetProjectInfo.then", "DownloadFile.then", "UploadFile.then"}

\* C18: in the step in which a request of a chain is answered with failure
\* the future fails with the message, the chain has no request in flight
\* any more and nothing is delivered; a request that is not the first of
\* its chain is sent only in a step that handles an answer of success to the
\* chain; and a result is delivered only in the step that handles the answer
\* of success to the last request of the chain.
C18_NoPartialSuccess ==
    [][/\ (last'.op = "Response" /\ last'.statusCode # 200) =>
            /\ last'.request \in inflight
            /\ last'.delivered
            /\ \A q \in inflight' : q.id # last'.request.id
       /\ \A q \in inflight' \ inflight :
             ~FirstStage(q) =>
                /\ Continued(last')
                /\ \E r \in inflight \ inflight' : r.id = q.id /\ r.op = q.op
       /\ (Continued(last') /\ last'.result # <<>>) =>
             \E r \in inflight \ inflight' :
                /\ LastStage(r)
                /\ \A q \in inflight' : q.id # r.id
      ]_vars

\* C18's case: the request for the directories, the third of its chain, has
\* failed: the message is delivered and nothing is in flight.
C18_Witness ==
    /\ last.op = "Response"
    /\ last.statusCode = 500
    /\ last.delivered
    /\ last.request.op = "GetProjectInfo"
    /\ last.request.get = "directories"
    /\ Len(last.request.prj.files) = 2
    /\ inflight = {}

\* A request that commits a storage.
IsCommit(q) == q.op = "UploadFile" /\ q.post = "translations"

\* C19: the commit of an UploadFile chain is sent in the step that handles
\* the answer of success to the chain's own storage request, with the
\* storage id of that answer, the file, project and language of the chain
\* and importDuplicates = true, whatever other chains are under way; in the
\* step in which a commit fails the future fails and the client sends
\* nothing more, so that the storage stays as it is.
C19_CommitAfterStaging ==
    [][/\ \A q \in inflight' \ inflight :
             IsCommit(q) =>
                /\ last'.op = "UploadFile.then"
                /\ last'.post = "storages"
                /\ last'.id = q.id
                /\ q.body.storageId = last'.storageId
                /\ q.body.importDuplicates = TRUE
                /\ \E r \in inflight \ inflight' :
                      /\ r.id = q.id
                      /\ r.op = "UploadFile" /\ r.post = "storages"
                      /\ q.body.fileId = r.file_id
                      /\ q.project_id = r.project_id
                      /\ q.lang = r.lang
       /\ (/\ last'.op = "Response"
           /\ last'.statusCode # 200
           /\ IsCommit(last'.request)) =>
             /\ last'.request \in inflight
             /\ last'.delivered
             /\ inflight' = inflight \ {last'.request}
      ]_vars

\* C19's case: two chains under way; the storage of the file 5 was given
\* the id 2 and its commit is in flight, and the storage of the file 6 has
\* just been given the id 1.
C19_Witness ==
    /\ last.op = "UploadFile.then"
    /\ last.post = "storages"
    /\ last.file_id = 6
    /\ last.storageId = 1
    /\ \E q1, q2 \in inflight :
          /\ q1.id # q2.id
          /\ IsCommit(q1) /\ IsCommit(q2)
          /\ q1.body = [storageId |-> 2, fileId |-> 5,
                        importDuplicates |-> TRUE]
          /\ q2.id = last.id
          /\ q2.body = [storageId |-> 1, fileId |-> 6,
                        importDuplicates |-> TRUE]

\* C20: a download in flight goes through a client of its own, made for the
\* scheme and host of the URL, with no authorization and distinct from the
\* client m_api, and the shared pointer to that client has a holder as
\* long as the download is in flight.
C20_DownloaderOutlivesFetch ==
    \A r \in inflight :
        (r.op = "DownloadFile" /\ r.via = "download") =>
            /\ \E u \in DownloadUrls :
                  r.url = u.url /\ r.transport.url_prefix = u.prefix
            /\ r.transport.authorization = ""
            /\ m_api # NULL => r.transport # m_api[1]
            /\ r.holders # {}

\* C20's case: the download of the URL with a port and a query is in flight
\* through a client for http://e.y, while m_api carries the bearer token.
C20_Witness ==
    /\ last.op = "DownloadFile.then"
    /\ last.via = "api"
    /\ m_api # NULL
    /\ m_api[1].authorization = "Bearer " \o Str(TokenAB)
    /\ \E r \in inflight :
          /\ r.op = "DownloadFile" /\ r.via = "download" /\ r.id = last.id
          /\ r.transport.url_prefix = "http://e.y"
          /\ r.holders # {}

\* ------------------------------------------------------------ C21 to C25

\* The identifier a file of the ProjectInfo has for the member of its entry:
\* NO_ID for null, else the number.
IdFor(member, id) ==
    IF member = JsonNull THEN id = NO_ID ELSE id = member[1] /\ id # NO_ID

\* C21: the files of the ProjectInfo the future gets are the entries of the
\* files answer whose type is not "assets", in the order of the answer,
\* each with its id, and with NO_ID for a directoryId or branchId that is
\* null and the number itself, which is not NO_ID, for one that is not.
C21_FilesListed ==
    (Handled("branches") /\ last.result # <<>>) =>
        LET entries == SelectSeq(last.heard[2], IsFile)
            files   == last.result[1].files
        IN  /\ Len(files) = Len(entries)
            /\ \A k \in 1..Len(entries) :
                  /\ files[k].id = entries[k].id
                  /\ IdFor(entries[k].directoryId, files[k].dirId)
                  /\ IdFor(entries[k].branchId, files[k].branchId)

\* C21's case: an answer with an asset before a file of the directory 3 in
\* no branch; the ProjectInfo has the file only.
C21_Witness ==
    /\ Handled("branches") /\ last.result # <<>>
    /\ Len(last.heard[2]) = 2
    /\ last.heard[2][1].type = "assets"
    /\ last.heard[2][2].directoryId = <<3>>
    /\ last.heard[2][2].branchId = JsonNull
    /\ Len(last.result[1].files) = 1
    /\ last.result[1].files[1].id = 5
    /\ last.result[1].files[1].dirId = 3
    /\ last.result[1].files[1].branchId = NO_ID

\* C22: the third continuation returns for every answer with the
\* directories and every list of files, also when the parent links of the
\* listed directories come back to a directory (here: when no walk comes to
\* an identifier that is not listed, so that parent links alone decide).
C22_DirectoryStageTerminates ==
    (/\ Handled("directories")
     /\ \A k \in 1..Len(HeardFiles) :
           ~WalkHitsAbsent(HeardDirectories, HeardFiles[k]))
    => /\ last.halts
       /\ running
       /\ \E q \in inflight : q.op = "GetProjectInfo" /\ q.get = "branches"

\* The authorization under which the request r, or the chain it belongs to,
\* was sent.
Under(r) == IF r.via = "api" THEN r.authorization ELSE r.under

\* The client is signed in with the token t: the store holds t and m_api
\* carries it.
SignedInWith(t) ==
    /\ keychain = <<t>>
    /\ m_api # NULL
    /\ m_api[1].authorization = "Bearer " \o Str(t)

\* C23: a 401 answer to a request sent under a token t1, arriving when the
\* client is signed in with another token t2, leaves t2 in the credential
\* store and the authorization of m_api as it is.
C23_OldRequestKeepsNewToken ==
    [][(/\ last'.op = "Response"
        /\ last'.statusCode = Unauthorized
        /\ last'.request \in inflight
        /\ \E t1, t2 \in Tokens :
              /\ t1 # t2
              /\ Under(last'.request) = "Bearer " \o Str(t1)
              /\ SignedInWith(t2))
       => /\ keychain' = keychain
          /\ m_api' = m_api
          /\ IsSignedIn'
      ]_vars

\* The API transport carries a bearer authorization.
CarriesBearer ==
    /\ m_api # NULL
    /\ \E t \in Tokens : m_api[1].authorization = "Bearer " \o Str(t)

\* C24: the credential store and the API transport agree: IsSignedIn() is
\* true iff m_api carries a bearer authorization, and then the bearer token
\* is the stored one.
C24_StoreAndTransportAgree ==
    /\ IsSignedIn <=> CarriesBearer
    /\ IsSignedIn => SignedInWith(keychain[1])

C24_Witness ==
    /\ last.op = "HandleOAuthCallback"
    /\ last.pending # NoCallback
    /\ SignedInWith(TokenPlain)
    /\ CarriesBearer
    /\ \E r \in inflight : Under(r) = "Bearer " \o Str(TokenAB)

\* The state parameter of the URL the call-th Authenticate() of a run opens
\* in the browser: OAUTH_AUTHORIZE_URL is one string literal, with
\* OAUTH_STATE in it, whichever call it is.
AuthorizeUrlState(call) == OAUTH_STATE

\* uri is a callback URI the server produces for the call-th Authenticate():
\* it returns the state parameter that call sent, with an access token.
ProducedFor(uri, call) ==
    /\ regex_search(uri, StateLit).matched
    /\ regex_search(uri, StateLit).str1 = AuthorizeUrlState(call)
    /\ regex_search(uri, TokenLit).matched

\* uri is stale: it was produced for an Authenticate() earlier than the one
\* whose request is pending, and the request of that earlier call is gone.
Stale(uri) ==
    /\ m_authCallback # NoCallback
    /\ \E call \in 1..(m_authCallback - 1) :
          /\ ~promises[call].alive
          /\ ProducedFor(uri, call)

\* C25: HandleOAuthCallback with a stale callback URI does not resolve the
\* pending request of the later Authenticate() and does not change the
\* stored token.
C25_StaleCallbackIgnored ==
    [][(/\ last'.op = "HandleOAuthCallback"
        /\ Stale(last'.uri))
       => /\ promises' = promises
          /\ m_authCallback' = m_authCallback
          /\ keychain' = keychain
      ]_vars

====
